---- MODULE Spec2Model ----
(***************************************************************************)
(* Avocado Analytics (src/app.py): the dataset load at import time and the *)
(* update_charts callback, as a state machine.                             *)
(*                                                                         *)
(* A DataFrame is a record [columns, rows, owner]: rows is the sequence of *)
(* its rows in index order, owner says whose memory it writes to ("self"   *)
(* for a frame of its own, "data" for a view of the module-level frame).   *)
(* A datetime64 value is the integer YYYYMMDD, which orders as the         *)
(* timestamps do; a date string "YYYY-MM-DD" is the triple <<Y, M, D>>.    *)
(* AveragePrice and Total Volume are integers; a mean is the exact         *)
(* fraction [num, den], so floating-point rounding is outside the model.   *)
(***************************************************************************)
EXTENDS Integers, Sequences, FiniteSets, TLC

VARIABLES
    phase,          \* "import" (module body running), "failed", "serving"
    csv,            \* rows of avocado.csv, in file order
    data,           \* module-level DataFrame (line 5)
    regions,        \* module-level sorted distinct regions (line 10)
    avocado_types,  \* module-level sorted distinct types (line 11)
    loaded,         \* history: data, regions, avocado_types as load left them
    tie,            \* how this build's quicksort orders equal keys
    call,           \* the last completed update_charts call and its locals
    remembered,     \* history: an earlier call, kept for comparison
    stack,          \* local scope of each in-flight update_charts call
    pc,             \* position of each in-flight call
    req,            \* arguments each in-flight call was invoked with
    ret             \* value each in-flight call returned

vars == <<phase, csv, data, regions, avocado_types, loaded, tie, call,
          remembered, stack, pc, req, ret>>

---------------------------------------------------------------------------
(* Bounds of the model. *)

\* Rows of the loaded frame in the serving specification.
MaxRows == 2
\* Rows of the CSV file in the load specification.
MaxCsvRows == 3
\* Regions with a row of their own in the ranking specification.
MaxRegions == 11
\* Rows of the loaded frame in the concurrent specification.
MaxConcRows == 1

\* head(10), line 193.
TopN == 10

---------------------------------------------------------------------------
(* Values *)

\* Region names in ascending string order.
RegionNames ==
    <<"Albany", "Atlanta", "BaltimoreWashington", "Boise", "Boston",
      "BuffaloRochester", "California", "Charlotte", "Chicago",
      "CincinnatiDayton", "Columbus", "DallasFtWorth", "Denver", "Detroit">>

\* Type names in ascending string order.
TypeNames == <<"conventional", "organic">>

\* Position of a string in ascending string order (str.__lt__).
StrOrd(s) ==
    IF \E i \in 1..Len(RegionNames) : RegionNames[i] = s
    THEN CHOOSE i \in 1..Len(RegionNames) : RegionNames[i] = s
    ELSE CHOOSE i \in 1..Len(TypeNames) : TypeNames[i] = s

\* A dropdown value that no row carries.
UnknownRegion == "Zurich"
UnknownType == "hass"

\* Date strings: two weeks of 2015, one of 2016, and one that does not parse.
D1 == <<2015, 1, 4>>
D2 == <<2015, 12, 27>>
D3 == <<2016, 1, 3>>
BadDate == <<2015, 13, 1>>
GoodDates == {D1, D2, D3}

DaysInMonth(y, m) ==
    IF m = 2 THEN (IF y % 4 = 0 /\ (y % 100 # 0 \/ y % 400 = 0) THEN 29 ELSE 28)
    ELSE IF m \in {4, 6, 9, 11} THEN 30 ELSE 31

\* strptime(s, "%Y-%m-%d") succeeds.
DateParses(s) ==
    /\ s[2] \in 1..12
    /\ s[3] \in 1..DaysInMonth(s[1], s[2])

\* pd.to_datetime(s, format="%Y-%m-%d"); also the coercion of @start_date.
ToDatetime(s) == s[1] * 10000 + s[2] * 100 + s[3]

\* Series.dt.year
DtYear(t) == t \div 10000

\* Where a quicksort leaves equal keys: in the order it met them, or in the
\* opposite order. The build fixes one.
TieOrders == {"stable", "reversed"}

DataColumns == {"Date", "AveragePrice", "Total Volume", "type", "region"}

\* One row of the frame. AveragePrice and Total Volume of a row differ, so
\* that a use of the wrong column shows.
Row(d, t, r, p, v) ==
    [Date |-> d, AveragePrice |-> p, Total_Volume |-> v, type |-> t, region |-> r]

PriceVolume == {<<1, 2>>, <<2, 1>>}

BodyRegions == {RegionNames[1], RegionNames[2]}

\* Rows of the CSV file: Date still a string.
CsvRows(dates, regs, types) ==
    {Row(d, t, r, pv[1], pv[2]) :
        d \in dates, t \in types, r \in regs, pv \in PriceVolume}

\* Rows of the loaded frame: Date parsed.
FrameRows ==
    {Row(ToDatetime(d), t, r, pv[1], pv[2]) :
        d \in GoodDates, t \in {TypeNames[1], TypeNames[2]}, r \in BodyRegions,
        pv \in PriceVolume}

SeqsUpTo(S, n) == UNION {[1..k -> S] : k \in 0..n}

IsSortedByDate(rows) ==
    \A i, j \in 1..Len(rows) : i < j => rows[i].Date <= rows[j].Date

Frame(rows) == [columns |-> DataColumns, rows |-> rows, owner |-> "self"]

---------------------------------------------------------------------------
(* Helpers *)

Min(a, b) == IF a < b THEN a ELSE b

RECURSIVE SumSeq(_)
SumSeq(s) == IF s = <<>> THEN 0 ELSE Head(s) + SumSeq(Tail(s))

\* The elements of a finite set of integers in ascending order.
RECURSIVE Ascending(_)
Ascending(S) ==
    IF S = {} THEN <<>>
    ELSE LET m == CHOOSE x \in S : \A y \in S : x <= y
         IN  <<m>> \o Ascending(S \ {m})

\* The strings of a finite set in ascending string order.
RECURSIVE AscendingStr(_)
AscendingStr(S) ==
    IF S = {} THEN <<>>
    ELSE LET m == CHOOSE x \in S : \A y \in S : StrOrd(x) <= StrOrd(y)
         IN  <<m>> \o AscendingStr(S \ {m})

\* df["AveragePrice"], df["Total Volume"], df["region"], df["type"]
AveragePriceCol(rows) == [i \in 1..Len(rows) |-> rows[i].AveragePrice]
TotalVolumeCol(rows) == [i \in 1..Len(rows) |-> rows[i].Total_Volume]
RegionCol(rows) == [i \in 1..Len(rows) |-> rows[i].region]
TypeCol(rows) == [i \in 1..Len(rows) |-> rows[i].type]

---------------------------------------------------------------------------
(* Load, lines 5-11 *)

\* Variant: the rows in descending order of date.
SortValuesByDateReversed(rows) ==
    {p \in [1..Len(rows) -> 1..Len(rows)] :
        /\ \A i, j \in 1..Len(rows) : i # j => p[i] # p[j]
        /\ \A i, j \in 1..Len(rows) :
              i < j => rows[p[i]].Date >= rows[p[j]].Date}

\* The orders sort_values(by="Date") may leave the rows in, as permutations
\* of their positions: kind="quicksort" is not documented as stable, so every
\* ascending arrangement is a possible outcome.
SortValuesByDate(rows) ==
    {p \in [1..Len(rows) -> 1..Len(rows)] :
        /\ \A i, j \in 1..Len(rows) : i # j => p[i] # p[j]
        /\ \A i, j \in 1..Len(rows) :
              i < j => rows[p[i]].Date <= rows[p[j]].Date}

\* .assign(Date=pd.to_datetime(...)) on the rows read.
ParseDates(rows) ==
    [i \in 1..Len(rows) |-> [rows[i] EXCEPT !.Date = ToDatetime(@)]]

\* column.sort_values().unique()
SortedUnique(col) == AscendingStr({col[i] : i \in 1..Len(col)})

NoCall == [returned |-> FALSE]
Threads == {"t1", "t2"}
NoLocals == [live |-> FALSE]
NoArgs == [given |-> FALSE]

Idle ==
    /\ call = NoCall
    /\ remembered = NoCall
    /\ stack = [t \in Threads |-> NoLocals]
    /\ pc = [t \in Threads |-> "idle"]
    /\ req = [t \in Threads |-> NoArgs]
    /\ ret = [t \in Threads |-> NoCall]

\* The module body: read_csv, to_datetime (raises ValueError on a string
\* that does not match the format), sort_values, then the two vocabularies.
Load ==
    /\ phase = "import"
    /\ IF \E i \in 1..Len(csv) : ~DateParses(csv[i].Date)
       THEN /\ phase' = "failed"
            /\ UNCHANGED <<data, regions, avocado_types, loaded>>
       ELSE \E p \in SortValuesByDate(ParseDates(csv)) :
              LET parsed == ParseDates(csv)
                  rows == [i \in 1..Len(csv) |-> parsed[p[i]]]
              IN  /\ phase' = "serving"
                  /\ data' = Frame(rows)
                  /\ regions' = SortedUnique(RegionCol(rows))
                  /\ avocado_types' = SortedUnique(TypeCol(rows))
                  /\ loaded' = [data |-> data', regions |-> regions',
                                avocado_types |-> avocado_types']
    /\ UNCHANGED <<csv, tie, call, remembered, stack, pc, req, ret>>

LoadCsvRows ==
    CsvRows({D1, D2, BadDate}, BodyRegions, {TypeNames[2]})

InitLoad ==
    /\ phase = "import"
    /\ csv \in SeqsUpTo(LoadCsvRows, MaxCsvRows)
    /\ data = Frame(<<>>)
    /\ regions = <<>>
    /\ avocado_types = <<>>
    /\ loaded = [data |-> data, regions |-> regions,
                 avocado_types |-> avocado_types]
    /\ tie \in TieOrders
    /\ Idle

NextLoad == Load

SpecLoad == InitLoad /\ [][NextLoad]_vars

---------------------------------------------------------------------------
(* update_charts, lines 129-227 *)

\* The arguments of a call: the four Input values of the callback.
Args(region, avocado_type, start_date, end_date) ==
    [given |-> TRUE, region |-> region, avocado_type |-> avocado_type,
     start_date |-> start_date, end_date |-> end_date]

\* Variant: the end date left out of the window.
FilterMaskOpenEnd(r, sel) ==
    /\ r.region = sel.region
    /\ r.type = sel.avocado_type
    /\ r.Date >= ToDatetime(sel.start_date)
    /\ r.Date < ToDatetime(sel.end_date)

\* Variant: "or" between the region and the type test.
FilterMaskRegionOrType(r, sel) ==
    /\ r.region = sel.region \/ r.type = sel.avocado_type
    /\ r.Date >= ToDatetime(sel.start_date)
    /\ r.Date <= ToDatetime(sel.end_date)

\* Row mask of the query string of line 131.
FilterMask(r, sel) ==
    /\ r.region = sel.region
    /\ r.type = sel.avocado_type
    /\ r.Date >= ToDatetime(sel.start_date)
    /\ r.Date <= ToDatetime(sel.end_date)

\* Variant: the query string of line 131 used again for the ranking.
TopMaskWithRegion(r, sel) ==
    /\ r.region = sel.region
    /\ r.type = sel.avocado_type
    /\ r.Date >= ToDatetime(sel.start_date)
    /\ r.Date <= ToDatetime(sel.end_date)

\* Variant: "or" between the two date tests.
TopMaskEitherBound(r, sel) ==
    /\ r.type = sel.avocado_type
    /\ \/ r.Date >= ToDatetime(sel.start_date)
       \/ r.Date <= ToDatetime(sel.end_date)

\* Row mask of the query string of line 189.
TopMask(r, sel) ==
    /\ r.type = sel.avocado_type
    /\ r.Date >= ToDatetime(sel.start_date)
    /\ r.Date <= ToDatetime(sel.end_date)

\* Variant: a mask that keeps every row hands back a view of the frame.
QueryOwnerView(df, kept) == IF Len(kept) = Len(df.rows) THEN "data" ELSE "self"

\* Whose memory the result of DataFrame.query writes to: boolean indexing
\* copies, so the result is a frame of its own.
QueryOwner(df, kept) == "self"

\* data.query(...), lines 130-132.
Query(df, sel) ==
    LET kept == SelectSeq(df.rows, LAMBDA r : FilterMask(r, sel))
    IN  [columns |-> df.columns, rows |-> kept, owner |-> QueryOwner(df, kept)]

\* df["Year"] = df["Date"].dt.year, line 134.
SetYear(df) ==
    [df EXCEPT
        !.columns = @ \cup {"Year"},
        !.rows = [i \in 1..Len(@) |->
                    [Date |-> @[i].Date, AveragePrice |-> @[i].AveragePrice,
                     Total_Volume |-> @[i].Total_Volume, type |-> @[i].type,
                     region |-> @[i].region, Year |-> DtYear(@[i].Date)]]]

\* The module-level frame after line 134: written through only by a view.
DataAfterSetYear(df, filtered) ==
    IF filtered.owner = "data" THEN SetYear(df) ELSE df

\* Variant: "sum" where "mean" is meant.
MeanAsSum(s) == [num |-> SumSeq(s), den |-> 1]

\* "mean": the sum over the count, kept as a fraction.
Mean(s) == [num |-> SumSeq(s), den |-> Len(s)]

\* groupby("Year", as_index=False).agg({"AveragePrice": "mean",
\* "Total Volume": "sum"}), lines 137-140: one row per key, keys ascending.
\* A frame without the Year column raises KeyError.
GroupByYearAgg(df) ==
    IF "Year" \notin df.columns THEN [error |-> "KeyError"]
    ELSE
    LET keys == Ascending({df.rows[i].Year : i \in 1..Len(df.rows)})
        group(y) == SelectSeq(df.rows, LAMBDA r : r.Year = y)
    IN  [error |-> "none",
         rows |-> [k \in 1..Len(keys) |->
                    [Year |-> keys[k],
                     AveragePrice |-> Mean(AveragePriceCol(group(keys[k]))),
                     Total_Volume |-> SumSeq(TotalVolumeCol(group(keys[k])))]]]

\* groupby("region", as_index=False)["Total Volume"].sum(), lines 190-191:
\* one row per region, regions in ascending string order.
GroupByRegionSum(rows) ==
    LET keys == AscendingStr({rows[i].region : i \in 1..Len(rows)})
        group(g) == SelectSeq(rows, LAMBDA r : r.region = g)
    IN  [k \in 1..Len(keys) |->
            [region |-> keys[k],
             Total_Volume |-> SumSeq(TotalVolumeCol(group(keys[k])))]]

\* Row i of s comes before row j after sort_values("Total Volume",
\* ascending=False), line 192. The default kind is quicksort, which is not
\* stable: where equal volumes land is the build's affair (order), the same
\* on every call.
SortsBefore(s, i, j, order) ==
    \/ s[i].Total_Volume > s[j].Total_Volume
    \/ /\ s[i].Total_Volume = s[j].Total_Volume
       /\ IF order = "stable" THEN i < j ELSE i > j

\* Variant: ascending=False forgotten.
SortValuesAsc(s, order) ==
    LET rank(i) == 1 + Cardinality({j \in 1..Len(s) :
                        \/ s[j].Total_Volume < s[i].Total_Volume
                        \/ s[j].Total_Volume = s[i].Total_Volume /\ j < i})
    IN  [k \in 1..Len(s) |-> s[CHOOSE i \in 1..Len(s) : rank(i) = k]]

SortValuesDesc(s, order) ==
    LET rank(i) == 1 + Cardinality({j \in 1..Len(s) : SortsBefore(s, j, i, order)})
    IN  [k \in 1..Len(s) |-> s[CHOOSE i \in 1..Len(s) : rank(i) = k]]

\* .head(n), line 193.
HeadRows(s, n) == SubSeq(s, 1, Min(n, Len(s)))

\* Variant: a sort whose handling of equal keys changes once calls have
\* been served (a pivot drawn from a generator shared by the calls).
CallTieOrderDrifting ==
    IF remembered = NoCall THEN tie
    ELSE IF tie = "stable" THEN "reversed" ELSE "stable"

\* The tie order the sort of this call works with.
CallTieOrder == tie

\* top_regions, lines 188-194.
TopRegions(df, sel) ==
    HeadRows(
        SortValuesDesc(
            GroupByRegionSum(SelectSeq(df.rows, LAMBDA r : TopMask(r, sel))),
            CallTieOrder),
        TopN)

\* The x and y of the three figures, lines 142-225.
Figures(yearly, top) ==
    [price_chart |-> [i \in 1..Len(yearly) |->
                        [x |-> yearly[i].Year, y |-> yearly[i].AveragePrice]],
     volume_chart |-> [i \in 1..Len(yearly) |->
                        [x |-> yearly[i].Year, y |-> yearly[i].Total_Volume]],
     top_region_chart |-> [i \in 1..Len(top) |->
                        [x |-> top[i].Total_Volume, y |-> top[i].region]]]

\* A whole call, start to return, with its locals as they are at line 227.
CallOutcome(df, sel) ==
    LET filtered == Query(df, sel)
        with_year == SetYear(filtered)
        yearly == GroupByYearAgg(with_year)
        top == TopRegions(df, sel)
    IN  IF yearly.error # "none"
        THEN [returned |-> FALSE, sel |-> sel, raised |-> yearly.error]
        ELSE [returned |-> TRUE, sel |-> sel, raised |-> "none",
              filtered_data |-> with_year,
              yearly_data |-> yearly.rows,
              top_regions |-> top,
              figures |-> Figures(yearly.rows, top)]

\* One callback invocation, run to completion with no other in flight.
UpdateCharts(sel) ==
    /\ phase = "serving"
    /\ call = NoCall
    /\ call' = CallOutcome(data, sel)
    /\ data' = DataAfterSetYear(data, Query(data, sel))
    /\ UNCHANGED <<phase, csv, regions, avocado_types, loaded, tie,
                   remembered, stack, pc, req, ret>>

\* The figures go out to the browser and the call's local scope is dropped.
Respond ==
    /\ call # NoCall
    /\ call' = NoCall
    /\ UNCHANGED <<phase, csv, data, regions, avocado_types, loaded, tie,
                   remembered, stack, pc, req, ret>>

\* As Respond, with the call kept aside (once) to compare later calls with.
Remember ==
    /\ call # NoCall
    /\ remembered = NoCall
    /\ remembered' = call
    /\ call' = NoCall
    /\ UNCHANGED <<phase, csv, data, regions, avocado_types, loaded, tie,
                   stack, pc, req, ret>>

SelRegions == BodyRegions \cup {UnknownRegion}
SelTypes == {TypeNames[1], TypeNames[2], UnknownType}

Selections ==
    {Args(r, t, s, e) : r \in SelRegions, t \in SelTypes,
                        s \in GoodDates, e \in GoodDates}

\* The state load leaves for the frame rows.
Served(rows, order) ==
    /\ phase = "serving"
    /\ csv = <<>>
    /\ data = Frame(rows)
    /\ regions = SortedUnique(RegionCol(rows))
    /\ avocado_types = SortedUnique(TypeCol(rows))
    /\ loaded = [data |-> data, regions |-> regions,
                 avocado_types |-> avocado_types]
    /\ tie = order
    /\ Idle

Init ==
    \E rows \in {s \in SeqsUpTo(FrameRows, MaxRows) : IsSortedByDate(s)},
       order \in TieOrders :
        Served(rows, order)

Next ==
    \/ \E sel \in Selections : UpdateCharts(sel)
    \/ Respond

Spec == Init /\ [][Next]_vars

---------------------------------------------------------------------------
(* The ranking with more regions than head(10) keeps *)

\* One organic row per region for the first n regions, all of the week D2;
\* regions lo..hi sold 2, the others 1.
WideRows(n, lo, hi) ==
    [i \in 1..n |->
        Row(ToDatetime(D2), TypeNames[2], RegionNames[i],
            IF lo <= i /\ i <= hi THEN 1 ELSE 2,
            IF lo <= i /\ i <= hi THEN 2 ELSE 1)]

WidePatterns(n) == {<<1, 0>>} \cup {<<lo, hi>> : lo \in 1..n, hi \in 1..n}

WideFrames ==
    UNION {{WideRows(n, q[1], q[2]) : q \in WidePatterns(n)} : n \in 0..MaxRegions}

\* A wide frame with one more row of any kind, kept in date order.
WithExtra(rows, x) ==
    IF x.Date < ToDatetime(D2) THEN <<x>> \o rows ELSE rows \o <<x>>

TopSelections ==
    {Args(r, t, w[1], w[2]) :
        r \in {RegionNames[1], UnknownRegion},
        t \in {TypeNames[1], TypeNames[2]},
        w \in {<<D1, D3>>, <<D2, D2>>, <<D3, D1>>}}

InitTop ==
    \E rows \in WideFrames \cup
                {WithExtra(w, x) : w \in WideFrames, x \in FrameRows},
       order \in TieOrders :
        Served(rows, order)

NextTop ==
    \/ \E sel \in TopSelections : UpdateCharts(sel)
    \/ Respond

SpecTop == InitTop /\ [][NextTop]_vars

---------------------------------------------------------------------------
(* Repeated calls *)

InitDet ==
    \E rows \in WideFrames, order \in TieOrders : Served(rows, order)

NextDet ==
    \/ \E sel \in TopSelections : UpdateCharts(sel)
    \/ Respond
    \/ Remember

SpecDet == InitDet /\ [][NextDet]_vars

---------------------------------------------------------------------------
(* Calls in flight together: the development server handles each request  *)
(* in a thread of its own, and a call's steps interleave with another's.  *)

\* Variant: the names are module-level, one scope for every call.
ScopeOfShared(t) == "t1"

\* The scope the names assigned in update_charts live in: the call's own
\* frame.
ScopeOf(t) == t

FreshLocals ==
    [live |-> TRUE, sel |-> NoArgs,
     filtered_data |-> [columns |-> {}, rows |-> <<>>, owner |-> "self"],
     yearly_data |-> [error |-> "unbound"],
     top_regions |-> <<>>]

\* Lines 129-132: the arguments are bound and the query runs.
Begin(t, sel) ==
    /\ phase = "serving"
    /\ pc[t] = "idle"
    /\ req' = [req EXCEPT ![t] = sel]
    /\ stack' = [stack EXCEPT ![ScopeOf(t)] =
            [(IF @.live THEN @ ELSE FreshLocals) EXCEPT
                !.sel = sel, !.filtered_data = Query(data, sel)]]
    /\ pc' = [pc EXCEPT ![t] = "line134"]
    /\ UNCHANGED <<phase, csv, data, regions, avocado_types, loaded, tie,
                   call, remembered, ret>>

\* Line 134.
AssignYear(t) ==
    /\ pc[t] = "line134"
    /\ stack' = [stack EXCEPT ![ScopeOf(t)].filtered_data = SetYear(@)]
    /\ data' = DataAfterSetYear(data, stack[ScopeOf(t)].filtered_data)
    /\ pc' = [pc EXCEPT ![t] = "line137"]
    /\ UNCHANGED <<phase, csv, regions, avocado_types, loaded, tie, call,
                   remembered, req, ret>>

\* Lines 137-140.
GroupYear(t) ==
    /\ pc[t] = "line137"
    /\ stack' = [stack EXCEPT ![ScopeOf(t)].yearly_data =
                    GroupByYearAgg(stack[ScopeOf(t)].filtered_data)]
    /\ pc' = [pc EXCEPT ![t] = "line188"]
    /\ UNCHANGED <<phase, csv, data, regions, avocado_types, loaded, tie,
                   call, remembered, req, ret>>

\* Lines 188-194.
RankRegions(t) ==
    /\ pc[t] = "line188"
    /\ stack' = [stack EXCEPT ![ScopeOf(t)].top_regions =
                    TopRegions(data, stack[ScopeOf(t)].sel)]
    /\ pc' = [pc EXCEPT ![t] = "line227"]
    /\ UNCHANGED <<phase, csv, data, regions, avocado_types, loaded, tie,
                   call, remembered, req, ret>>

\* Line 227 (or the exception of lines 137-140 leaving the call): the
\* figures are built from the locals and the scope is dropped.
Return(t) ==
    /\ pc[t] = "line227"
    /\ LET l == stack[ScopeOf(t)]
       IN  ret' = [ret EXCEPT ![t] =
                IF l.yearly_data.error # "none"
                THEN [returned |-> FALSE, raised |-> l.yearly_data.error]
                ELSE [returned |-> TRUE, raised |-> "none",
                      figures |-> Figures(l.yearly_data.rows, l.top_regions)]]
    /\ stack' = [stack EXCEPT ![ScopeOf(t)] = NoLocals]
    /\ pc' = [pc EXCEPT ![t] = "done"]
    /\ UNCHANGED <<phase, csv, data, regions, avocado_types, loaded, tie,
                   call, remembered, req>>

\* The response is sent; the thread may take another request.
Deliver(t) ==
    /\ pc[t] = "done"
    /\ pc' = [pc EXCEPT ![t] = "idle"]
    /\ req' = [req EXCEPT ![t] = NoArgs]
    /\ ret' = [ret EXCEPT ![t] = NoCall]
    /\ UNCHANGED <<phase, csv, data, regions, avocado_types, loaded, tie,
                   call, remembered, stack>>

ConcSelections ==
    {Args(r, t, w[1], w[2]) :
        r \in BodyRegions,
        t \in {TypeNames[1], TypeNames[2]},
        w \in {<<D1, D3>>, <<D2, D2>>}}

InitConc ==
    \E rows \in {s \in SeqsUpTo(FrameRows, MaxConcRows) : IsSortedByDate(s)},
       order \in TieOrders :
        Served(rows, order)

NextConc ==
    \E t \in Threads :
        \/ \E sel \in ConcSelections : Begin(t, sel)
        \/ AssignYear(t)
        \/ GroupYear(t)
        \/ RankRegions(t)
        \/ Return(t)
        \/ Deliver(t)

SpecConc == InitConc /\ [][NextConc]_vars

---------------------------------------------------------------------------
(* The claims. What a claim expects is written here from its own words,   *)
(* over the rows of data, and compared with what the call left.           *)

RowIdx == 1..Len(data.rows)

\* startDate <= r.date <= endDate
InWindow(r, sel) ==
    /\ ToDatetime(sel.start_date) <= r.Date
    /\ r.Date <= ToDatetime(sel.end_date)

\* Indices of the rows of data the yearly series is claimed to rest on.
Selected(sel) ==
    {i \in RowIdx :
        /\ data.rows[i].region = sel.region
        /\ data.rows[i].type = sel.avocado_type
        /\ InWindow(data.rows[i], sel)}

\* Indices of the rows of data the ranking is claimed to rest on.
Ranked(sel) ==
    {i \in RowIdx :
        /\ data.rows[i].type = sel.avocado_type
        /\ InWindow(data.rows[i], sel)}

RECURSIVE SumOver(_, _)
SumOver(S, vals) ==
    IF S = {} THEN 0
    ELSE LET i == CHOOSE x \in S : TRUE
         IN  vals[i] + SumOver(S \ {i}, vals)

Volumes == [i \in RowIdx |-> data.rows[i].Total_Volume]
Prices == [i \in RowIdx |-> data.rows[i].AveragePrice]

\* A row of a frame without its derived Year.
Plain(r) == Row(r.Date, r.type, r.region, r.AveragePrice, r.Total_Volume)

Range(s) == {s[i] : i \in 1..Len(s)}

\* C1: the rows feeding the yearly series are exactly the rows of data with
\* the selected region and type and a date in [startDate, endDate], both
\* ends included: each such row is there as often as in data, in data's
\* order, and no other row is.
C1_FilterExact ==
    call.returned =>
        LET f == call.filtered_data.rows
            want == SelectSeq([i \in RowIdx |-> i],
                              LAMBDA i : i \in Selected(call.sel))
        IN  /\ Len(f) = Len(want)
            /\ \A k \in 1..Len(f) : Plain(f[k]) = data.rows[want[k]]
            /\ \A i \in RowIdx :
                 (/\ data.rows[i].region = call.sel.region
                  /\ data.rows[i].type = call.sel.avocado_type
                  /\ ToDatetime(call.sel.start_date) <= ToDatetime(call.sel.end_date)
                  /\ data.rows[i].Date \in {ToDatetime(call.sel.start_date),
                                            ToDatetime(call.sel.end_date)})
                 => \E k \in 1..Len(f) : Plain(f[k]) = data.rows[i]

\* C1 witness: a call kept a row dated startDate and a row dated endDate and
\* left a row of data out.
C1_Witness ==
    /\ call.returned
    /\ \E k \in 1..Len(call.filtered_data.rows) :
         call.filtered_data.rows[k].Date = ToDatetime(call.sel.start_date)
    /\ \E k \in 1..Len(call.filtered_data.rows) :
         call.filtered_data.rows[k].Date = ToDatetime(call.sel.end_date)
    /\ Len(call.filtered_data.rows) < Len(data.rows)

\* C2: the yearly series has one entry per calendar year of the selected
\* rows and no other, in strictly ascending year order; an entry's volume is
\* the sum of Total Volume and its price the mean of AveragePrice over the
\* selected rows of that year (the row's own value when there is one row).
C2_YearlySeries ==
    call.returned =>
        LET y == call.yearly_data
            S == Selected(call.sel)
            years == {DtYear(data.rows[i].Date) : i \in S}
            of(yr) == {i \in S : DtYear(data.rows[i].Date) = yr}
        IN  /\ {y[k].Year : k \in 1..Len(y)} = years
            /\ Len(y) = Cardinality(years)
            /\ \A k, l \in 1..Len(y) : k < l => y[k].Year < y[l].Year
            /\ \A k \in 1..Len(y) :
                 /\ y[k].Total_Volume = SumOver(of(y[k].Year), Volumes)
                 /\ y[k].AveragePrice.den > 0
                 /\ y[k].AveragePrice.num * Cardinality(of(y[k].Year))
                        = SumOver(of(y[k].Year), Prices) * y[k].AveragePrice.den
                 /\ \A i \in of(y[k].Year) :
                      Cardinality(of(y[k].Year)) = 1 =>
                        y[k].AveragePrice.num
                            = data.rows[i].AveragePrice * y[k].AveragePrice.den
            /\ call.figures.price_chart =
                 [k \in 1..Len(y) |-> [x |-> y[k].Year, y |-> y[k].AveragePrice]]
            /\ call.figures.volume_chart =
                 [k \in 1..Len(y) |-> [x |-> y[k].Year, y |-> y[k].Total_Volume]]

\* C2 witness: a call averaged two rows of one year whose prices differ.
C2_Witness ==
    /\ call.returned
    /\ \E i, j \in Selected(call.sel) :
         /\ i # j
         /\ DtYear(data.rows[i].Date) = DtYear(data.rows[j].Date)
         /\ data.rows[i].AveragePrice # data.rows[j].AveragePrice
         /\ data.rows[i].Date # data.rows[j].Date

\* C3: the ranking is the same whatever region is selected; when no row has
\* the selected region the yearly series is empty, and the ranking is not
\* whenever a row of any region has the selected type and a date in the
\* window.
C3_TopIgnoresRegion ==
    call.returned =>
        /\ \A r \in SelRegions :
             TopRegions(data, [call.sel EXCEPT !.region = r]) = call.top_regions
        /\ (\A i \in RowIdx : data.rows[i].region # call.sel.region) =>
             /\ call.yearly_data = <<>>
             /\ Ranked(call.sel) # {} => call.top_regions # <<>>

\* C3 witness: a call for a region no row has returned a ranking with an
\* entry.
C3_Witness ==
    /\ call.returned
    /\ \A i \in RowIdx : data.rows[i].region # call.sel.region
    /\ call.yearly_data = <<>>
    /\ call.top_regions # <<>>

\* C4: the ranking names no region twice; it has min(10, n) entries for the
\* n regions with a row of the selected type in the window; an entry's value
\* is the sum of Total Volume over those rows of its region; values do not
\* increase down the ranking; no region left out sold more than one kept.
C4_TopRegions ==
    call.returned =>
        LET t == call.top_regions
            M == Ranked(call.sel)
            R == {data.rows[i].region : i \in M}
            vol(g) == SumOver({i \in M : data.rows[i].region = g}, Volumes)
            kept == {t[k].region : k \in 1..Len(t)}
        IN  /\ \A k, l \in 1..Len(t) : k # l => t[k].region # t[l].region
            /\ Len(t) = (IF Cardinality(R) < 10 THEN Cardinality(R) ELSE 10)
            /\ \A k \in 1..Len(t) :
                 /\ t[k].region \in R
                 /\ t[k].Total_Volume = vol(t[k].region)
            /\ \A k, l \in 1..Len(t) :
                 k < l => t[k].Total_Volume >= t[l].Total_Volume
            /\ \A g \in R \ kept : \A k \in 1..Len(t) : vol(g) <= t[k].Total_Volume
            /\ call.figures.top_region_chart =
                 [k \in 1..Len(t) |-> [x |-> t[k].Total_Volume, y |-> t[k].region]]

\* C4 witness: more than ten regions qualified, ten were kept, a region with
\* several rows is among them, and a region left out ties with the last kept.
C4_Witness ==
    /\ call.returned
    /\ Len(call.top_regions) = 10
    /\ LET M == Ranked(call.sel)
           R == {data.rows[i].region : i \in M}
           kept == {call.top_regions[k].region : k \in 1..10}
       IN  /\ Cardinality(R) > 10
           /\ call.top_regions[1].Total_Volume > call.top_regions[10].Total_Volume
           /\ \E g \in R \ kept :
                SumOver({i \in M : data.rows[i].region = g}, Volumes)
                    = call.top_regions[10].Total_Volume
           /\ \E i, j \in M :
                i # j /\ data.rows[i].region = data.rows[j].region
                      /\ data.rows[i].region \in kept

\* C5: a call with startDate > endDate returns, with an empty price series,
\* an empty volume series and an empty ranking.
C5_InvertedWindow ==
    (/\ call # NoCall
     /\ ToDatetime(call.sel.start_date) > ToDatetime(call.sel.end_date))
    => /\ call.returned
       /\ call.raised = "none"
       /\ call.yearly_data = <<>>
       /\ call.figures.price_chart = <<>>
       /\ call.figures.volume_chart = <<>>
       /\ call.top_regions = <<>>
       /\ call.figures.top_region_chart = <<>>

\* C5 witness: a call with startDate > endDate over rows of the selected
\* region and type dated between the two.
C5_Witness ==
    /\ call # NoCall
    /\ ToDatetime(call.sel.start_date) > ToDatetime(call.sel.end_date)
    /\ \E i \in RowIdx :
         /\ data.rows[i].region = call.sel.region
         /\ data.rows[i].type = call.sel.avocado_type
         /\ ToDatetime(call.sel.end_date) <= data.rows[i].Date
         /\ data.rows[i].Date <= ToDatetime(call.sel.start_date)

\* C6: a call whose region is not in regions or whose type is not in
\* avocado_types returns, with an empty yearly series; with the type not in
\* avocado_types the ranking is empty too.
C6_UnknownValue ==
    (/\ call # NoCall
     /\ \/ call.sel.region \notin Range(regions)
        \/ call.sel.avocado_type \notin Range(avocado_types))
    => /\ call.returned
       /\ call.raised = "none"
       /\ call.yearly_data = <<>>
       /\ call.figures.price_chart = <<>>
       /\ call.figures.volume_chart = <<>>
       /\ call.sel.avocado_type \notin Range(avocado_types) =>
            /\ call.top_regions = <<>>
            /\ call.figures.top_region_chart = <<>>

\* C6 witness: a call with a type no row has, for a region that has rows in
\* the window.
C6_Witness ==
    /\ call # NoCall
    /\ call.sel.avocado_type \notin Range(avocado_types)
    /\ call.sel.region \in Range(regions)
    /\ \E i \in RowIdx :
         /\ data.rows[i].region = call.sel.region
         /\ InWindow(data.rows[i], call.sel)

C8_DataUnchanged ==
    phase = "serving" =>
        /\ data = loaded.data
        /\ data.columns = DataColumns
        /\ "Year" \notin data.columns
        /\ \A i \in RowIdx : Plain(data.rows[i]) = data.rows[i]
        /\ regions = loaded.regions
        /\ avocado_types = loaded.avocado_types

\* C8 witness: a call whose query kept every row of data set Year on them.
C8_Witness ==
    /\ call.returned
    /\ "Year" \in call.filtered_data.columns
    /\ Len(data.rows) > 0
    /\ Len(call.filtered_data.rows) = Len(data.rows)
    /\ \A k \in 1..Len(call.filtered_data.rows) :
         call.filtered_data.rows[k].Year = DtYear(data.rows[k].Date)


Count(x, s) == Cardinality({i \in 1..Len(s) : s[i] = x})

C10_ConcurrentCalls ==
    /\ data = loaded.data
    /\ \A t \in Threads :
         pc[t] = "done" =>
            LET alone == CallOutcome(loaded.data, req[t])
            IN  /\ ret[t].returned
                /\ alone.returned
                /\ ret[t].figures = alone.figures

\* C10 witness: a call returned a non-empty series while another call with
\* other arguments, begun before it ended, was past its query.
C10_Witness ==
    /\ pc["t1"] = "done"
    /\ pc["t2"] \in {"line137", "line188"}
    /\ req["t1"] # req["t2"]
    /\ ret["t1"].returned
    /\ ret["t1"].figures.price_chart # <<>>
    /\ stack["t2"].filtered_data.rows = <<>>

====
